---------------------------- MODULE Spec2Model ----------------------------
(***************************************************************************)
(* CommsAssist Outlook add-in: the configuration store, the retry client   *)
(* (callCustomEndpoint / callGeminiAPI) and the pane's startup flow.       *)
(*                                                                         *)
(* The repository holds two implementations of the pane:                   *)
(*   "taskpane" : src/unnamed/part_000                                     *)
(*   "pane"     : src/Outlook/CommsAssist/src/outlook/pane.js              *)
(* The variable impl says which one runs; it never changes.                *)
(*                                                                         *)
(* JavaScript strings are sequences of character codes.  A JavaScript      *)
(* value is a record [t, s, a]: t is its type tag, s its characters when   *)
(* it is a string, a its elements when it is an array of strings.          *)
(***************************************************************************)
EXTENDS Integers, Sequences, FiniteSets, TLC

(* ------------------------- program constants ------------------------- *)

maxAttempts == 5

baseDelay == 1000

\* Math.random() * 1000 lies in [0, jitterRange)
jitterRange == 1000

\* String.fromCharCode(10)
LF == 10

(* ------------------------------ bounds ------------------------------- *)

\* Quick Reply clicks handled in one session
MaxClicks == 2

\* longest middle part of a sampled argument of removeHtmlFences
MaxMiddle == 2

\* loads of the configuration document in one run of the store
MaxLoads == 2

(* --------------------------- JavaScript values ----------------------- *)

Impls == {"taskpane", "pane"}

Undefined == [t |-> "undefined", s |-> <<>>, a |-> <<>>]

Str(chars) == [t |-> "string", s |-> chars, a |-> <<>>]

Arr(elems) == [t |-> "array", s |-> <<>>, a |-> elems]

EmptyString == Str(<<>>)

\* !v for the values of the model: undefined and "" are falsy
Falsy(v) == v.t = "undefined" \/ (v.t = "string" /\ v.s = <<>>)

\* 2^n
RECURSIVE Pow2(_)
Pow2(n) == IF n = 0 THEN 1 ELSE 2 * Pow2(n - 1)

(* ------------------------- configuration store ----------------------- *)

Keys == {"customendpoint_url", "google_api_key"}

\* sample characters: "a", "b"
ElemA == <<97>>

ElemB == <<98>>

\* the values a configuration document gives a key
ConfigValues ==
  { Str(<<>>), Str(ElemA),
    Arr(<<>>), Arr(<<ElemA>>), Arr(<<ElemA, ElemB>>), Arr(<<ElemB, ElemA>>),
    Arr(<<ElemB, <<>>, ElemA>>) }

\* a flat configuration document: some keys, each with a value
ConfigDocs == UNION { [ks -> ConfigValues] : ks \in SUBSET Keys }

NoDoc == [k \in {} |-> Undefined]

\* Array.prototype.join(sep) on an array of strings
RECURSIVE JoinWith(_, _)
JoinWith(elems, sep) ==
  IF elems = <<>> THEN <<>>
  ELSE IF Len(elems) = 1 THEN elems[1]
  ELSE elems[1] \o <<sep>> \o JoinWith(Tail(elems), sep)

\* value.join() : a join that forgets the separator argument and so uses ","
getVarCommaJoin(map, key) ==
  IF Cardinality(DOMAIN map) # 0
  THEN IF key \in DOMAIN map
       THEN IF map[key].t = "array" THEN Str(JoinWith(map[key].a, 44))
            ELSE map[key]
       ELSE Undefined
  ELSE EmptyString

\* getVar(key) on the store map: "" when the store is empty, else Map.get(key),
\* an array joined with a newline
getVar(map, key) ==
  IF Cardinality(DOMAIN map) # 0
  THEN IF key \in DOMAIN map
       THEN IF map[key].t = "array" THEN Str(JoinWith(map[key].a, LF))
            ELSE map[key]
       ELSE Undefined
  ELSE EmptyString

\* the answers of the fetch of config.json
ConfigResponses ==
  { [ok |-> FALSE, parsable |-> TRUE, doc |-> NoDoc],
    [ok |-> TRUE, parsable |-> FALSE, doc |-> NoDoc] }
  \cup { [ok |-> TRUE, parsable |-> TRUE, doc |-> d] : d \in ConfigDocs }

\* whether loadConfig returns normally (it rethrows what it catches)
loadSucceeds(resp) == resp.ok /\ resp.parsable

\* a load that empties the map before it unpacks the document
loadConfigReplace(map, resp) ==
  IF loadSucceeds(resp) THEN resp.doc ELSE map

\* the store map after loadConfig: configMap.set(key, parsedData[key]) for each
\* key of the document; nothing is set when the fetch or the parse fails
loadConfig(map, resp) ==
  IF loadSucceeds(resp)
  THEN [k \in (DOMAIN map) \cup (DOMAIN resp.doc) |->
          IF k \in DOMAIN resp.doc THEN resp.doc[k] ELSE map[k]]
  ELSE map

(* ---------------------------- retry client ---------------------------- *)

Endpoints == {"custom", "gemini"}

\* the configuration key each call checks before its loop
requiredKey(ep) == IF ep = "custom" THEN "customendpoint_url" ELSE "google_api_key"

\* a parsed response body.  json is the kind of JSON value ("unparsable" when
\* response.json() rejects, "true" for the literal true).  For an object,
\* depth is how far the path candidates[0].content.parts[0].text exists
\* (0: no candidates[0], 1: no content, 2: no parts[0], 3: no text, 4: text),
\* text is the text found there, and shape says which of the custom endpoint's
\* paths exist:
\*   "none"      no response property
\*   "noMeta"    response.answer.email_draft only, no response.metadata
\*   "noAnswer"  response.metadata complete, no response.answer
\*   "noUrgency" all but response.metadata.email_urgency
\*   "noDraft"   response.answer without email_draft, metadata complete
\*   "full"      all four
Body(json, depth, text, shape) ==
  [json |-> json, depth |-> depth, text |-> text, shape |-> shape]

NoBody == Body("none", 0, <<>>, "none")

CustomShapes == {"none", "noMeta", "noAnswer", "noUrgency", "noDraft", "full"}

ResponseBodies ==
  { Body(j, 0, <<>>, "none") :
      j \in {"unparsable", "null", "false", "zero", "emptystr", "true"} }
  \cup { Body("object", d, <<>>, "none") : d \in 0..4 }
  \cup { Body("object", 4, ElemA, "none") }
  \cup { Body("object", 0, <<>>, sh) : sh \in CustomShapes }

\* what one fetch gives: a rejection, or a response with a status and a body
NetError == [rejected |-> TRUE, status |-> 0, body |-> NoBody]

Response(status, body) == [rejected |-> FALSE, status |-> status, body |-> body]

Responses ==
  { NetError, Response(429, NoBody), Response(500, NoBody) }
  \cup { Response(200, b) : b \in ResponseBodies }

\* response.ok
responseOk(resp) == resp.status >= 200 /\ resp.status <= 299

\* a test that takes no parsed body for a value
customExtractNever(body) == FALSE

\* a test that takes objects only
customExtractObjectsOnly(body) == body.json = "object"

\* the kinds of parsed body that are truthy; null, false, 0 and "" are not
TruthyJson == {"object", "true"}

\* if (result) : the parsed body is truthy
customExtract(body) == body.json \in TruthyJson

\* candidate && candidate.content?.parts?.[0]?.text
geminiExtract(body) == body.json = "object" /\ body.depth = 4 /\ body.text # <<>>

\* a client that backs off on every response that is not ok
classifyBackoffOnAnyError(ep, resp) ==
  IF resp.rejected THEN "failed"
  ELSE IF ~responseOk(resp) THEN "rateLimited"
  ELSE IF resp.body.json = "unparsable" THEN "failed"
  ELSE IF ep = "custom"
       THEN (IF customExtract(resp.body) THEN "valid" ELSE "failed")
       ELSE (IF geminiExtract(resp.body) THEN "valid" ELSE "failed")

\* how one attempt ends: "rateLimited" (status 429), "valid" (the value is
\* returned) or "failed" (something was thrown inside the try block)
classify(ep, resp) ==
  IF resp.rejected THEN "failed"
  ELSE IF resp.status = 429 THEN "rateLimited"
  ELSE IF ~responseOk(resp) THEN "failed"
  ELSE IF resp.body.json = "unparsable" THEN "failed"
  ELSE IF ep = "custom"
       THEN (IF customExtract(resp.body) THEN "valid" ELSE "failed")
       ELSE (IF geminiExtract(resp.body) THEN "valid" ELSE "failed")

\* the values Math.random() * 1000 is sampled at
Jitters == {0, jitterRange - 1}

\* a delay that does not grow with the attempts
backoffDelayFlat(att, jitter) == baseDelay + jitter

\* a delay computed after attempts++ instead of before it
backoffDelayLate(att, jitter) == baseDelay * Pow2(att + 1) + jitter

\* baseDelay * Math.pow(2, attempts) + Math.random() * 1000
backoffDelay(att, jitter) == baseDelay * Pow2(att) + jitter

\* a loop that allows one attempt more
loopContinuesOffByOne(att) == att <= maxAttempts

\* while (attempts < maxAttempts)
loopContinues(att) == att < maxAttempts

\* a catch block that gives up one attempt early
exhaustedEarly(att) == att >= maxAttempts - 1

\* if (attempts >= maxAttempts) throw ... in the catch block
exhausted(att) == att >= maxAttempts

\* a counter kept outside the function, which a new call finds as the last
\* call left it
initialAttemptsShared(prev) == prev

\* let attempts = 0 : the counter is a local of each call
initialAttempts(prev) == 0

\* a precheck that never throws
precheckNever(im, ep, map) == FALSE

\* the check before the loop: the taskpane's callCustomEndpoint throws when
\* customendpoint_url is falsy, callGeminiAPI throws when google_api_key is
\* falsy; the pane's callCustomEndpoint has no such check
precheckThrows(im, ep, map) ==
  IF ep = "custom" /\ im = "pane" THEN FALSE
  ELSE Falsy(getVar(map, requiredKey(ep)))

\* the result of a call: nothing yet, a returned value (undefined when the
\* function runs off its end), or a thrown error
NoResult == [kind |-> "none", err |-> "", body |-> NoBody]

Returned(body) == [kind |-> "value", err |-> "", body |-> body]

ReturnedUndefined == [kind |-> "undefined", err |-> "", body |-> NoBody]

Thrown(err) == [kind |-> "error", err |-> err, body |-> NoBody]

\* the state of a call of callGeminiAPI followed beside the call in the retry
\* variables: where it is, its attempts counter, the requests it has issued,
\* the backoff waits it has started, their total and the random part of that
\* total, its latest delay, the kind of its outcome and its error; alike says
\* whether every response so far had a body both extractors judge the same
NoTwin ==
  [cpc |-> "idle", attempts |-> 0, requests |-> 0, nWaits |-> 0, waited |-> 0,
   jitters |-> 0, lastDelay |-> 0, kind |-> "none", err |-> "", alike |-> TRUE]

\* a 2xx response whose parsed body one extractor takes and the other refuses
bodiesAlike(resp) ==
  \/ resp.rejected
  \/ ~responseOk(resp)
  \/ resp.body.json = "unparsable"
  \/ customExtract(resp.body) = geminiExtract(resp.body)

\* callGeminiAPI up to its first fetch: the check of google_api_key, let
\* attempts = 0, the first evaluation of the loop condition
geminiBegins(im, map) ==
  IF precheckThrows(im, "gemini", map)
  THEN [NoTwin EXCEPT !.cpc = "thrown", !.kind = "error", !.err = "notConfigured"]
  ELSE [NoTwin EXCEPT !.cpc = "fetch", !.requests = 1]

\* a client that gives up at the first response it cannot use
geminiSettlesNoRetry(st, resp, jitter) ==
  IF classify("gemini", resp) = "valid"
  THEN [st EXCEPT !.cpc = "returned", !.kind = "value",
                  !.alike = st.alike /\ bodiesAlike(resp)]
  ELSE [st EXCEPT !.cpc = "thrown", !.kind = "error", !.err = "exhausted",
                  !.attempts = st.attempts + 1,
                  !.alike = st.alike /\ bodiesAlike(resp)]

\* one turn of the loop of callGeminiAPI, its fetch answering resp: the 429
\* branch, the return of the text, or the catch block
geminiSettles(st, resp, jitter) ==
  LET seen == [st EXCEPT !.alike = st.alike /\ bodiesAlike(resp)]
  IN IF ~resp.rejected /\ resp.status = 429
     THEN [seen EXCEPT !.cpc = "sleep",
                       !.lastDelay = baseDelay * Pow2(st.attempts) + jitter,
                       !.waited = st.waited + baseDelay * Pow2(st.attempts) + jitter,
                       !.jitters = st.jitters + jitter,
                       !.nWaits = st.nWaits + 1,
                       !.attempts = st.attempts + 1]
     ELSE IF ~resp.rejected /\ responseOk(resp) /\ resp.body.json # "unparsable"
             /\ geminiExtract(resp.body)
     THEN [seen EXCEPT !.cpc = "returned", !.kind = "value"]
     ELSE IF st.attempts + 1 >= maxAttempts
     THEN [seen EXCEPT !.cpc = "thrown", !.kind = "error", !.err = "exhausted",
                       !.attempts = st.attempts + 1]
     ELSE IF st.attempts + 1 < maxAttempts
     THEN [seen EXCEPT !.cpc = "fetch", !.attempts = st.attempts + 1,
                       !.requests = st.requests + 1]
     ELSE [seen EXCEPT !.cpc = "returned", !.kind = "undefined",
                       !.attempts = st.attempts + 1]

\* the backoff timer of callGeminiAPI fires: continue, the loop condition
geminiWakes(st) ==
  IF st.attempts < maxAttempts
  THEN [st EXCEPT !.cpc = "fetch", !.requests = st.requests + 1]
  ELSE [st EXCEPT !.cpc = "returned", !.kind = "undefined"]


(* ------------------------- pane: pure helpers ------------------------- *)

\* the compose forms, in the order openComposeWithHtml looks for them:
\* item.displayReplyAllForm, item.displayReplyForm,
\* Office.context.mailbox.displayNewMessageForm
ComposeForms == {"replyAll", "reply", "newMessage"}

FormOrder == <<"replyAll", "reply", "newMessage">>

\* where openComposeWithHtml goes when the form f is absent or has thrown
nextForm(f) ==
  IF f = "replyAll" THEN "reply"
  ELSE IF f = "reply" THEN "newMessage"
  ELSE "noForm"

\* a function that goes on to the next form after it has opened one
afterFormNoReturn(f, form) == nextForm(f)

\* where openComposeWithHtml goes from the form f: return when the call of the
\* form came back, on when the form is not a function or its call threw
afterForm(f, form) == IF form = "works" THEN "done" ELSE nextForm(f)

\* "<p>&mdash;</p>" with the dash as its character
DashParagraph == Str(<<60, 112, 62, 8212, 60, 47, 112, 62>>)

\* typeof htmlDraft === "string" ? htmlDraft : String(htmlDraft || "<p>-</p>"),
\* for a string and for undefined
composeBody(v) == IF v.t = "string" THEN v ELSE DashParagraph

\* "Unknown"
Unknown == Str(<<85, 110, 107, 110, 111, 119, 110>>)

\* "<html><body><p>Error generating draft. Please try again.</p></body></html>"
FallbackHtml ==
  Str(<<60, 104, 116, 109, 108, 62, 60, 98, 111, 100, 121, 62, 60, 112,
      62, 69, 114, 114, 111, 114, 32, 103, 101, 110, 101, 114, 97, 116,
      105, 110, 103, 32, 100, 114, 97, 102, 116, 46, 32, 80, 108, 101,
      97, 115, 101, 32, 116, 114, 121, 32, 97, 103, 97, 105, 110, 46,
      60, 47, 112, 62, 60, 47, 98, 111, 100, 121, 62, 60, 47, 104,
      116, 109, 108, 62>>)

\* "<p></p>"
EmptyParagraph == Str(<<60, 112, 62, 60, 47, 112, 62>>)

\* '```html' + String.fromCharCode(10)
Fence == <<96, 96, 96, 104, 116, 109, 108, LF>>

\* '```'
FenceEnd == <<96, 96, 96>>

\* a value no assignment has produced yet
NotSet == [t |-> "unset", s |-> <<>>, a |-> <<>>]

\* the TypeError a property access or method call on a wrong value throws
TypeError == [t |-> "throws", s |-> <<>>, a |-> <<>>]

StartsWith(str, pre) == Len(str) >= Len(pre) /\ SubSeq(str, 1, Len(pre)) = pre

EndsWith(str, suf) ==
  Len(str) >= Len(suf) /\ SubSeq(str, Len(str) - Len(suf) + 1, Len(str)) = suf

\* a slice that drops one character less at the end
SliceShort(str, from, drop) ==
  IF Len(str) - (drop - 1) <= from THEN <<>>
  ELSE SubSeq(str, from + 1, Len(str) - (drop - 1))

\* str.slice(from, -drop)
Slice(str, from, drop) ==
  IF Len(str) - drop <= from THEN <<>> ELSE SubSeq(str, from + 1, Len(str) - drop)

\* a function that looks only at how the string begins
removeHtmlFencesStartOnly(im, v) ==
  IF v.t # "string"
  THEN (IF im = "taskpane" THEN v ELSE TypeError)
  ELSE IF StartsWith(v.s, Fence)
       THEN Str(Slice(v.s, Len(Fence), Len(FenceEnd)))
       ELSE v

\* removeHtmlFences(content): the taskpane passes a non-string through, the
\* pane calls content.startsWith on it
removeHtmlFences(im, v) ==
  IF v.t # "string"
  THEN (IF im = "taskpane" THEN v ELSE TypeError)
  ELSE IF StartsWith(v.s, Fence) /\ EndsWith(v.s, FenceEnd)
       THEN Str(Slice(v.s, Len(Fence), Len(FenceEnd)))
       ELSE v

\* v ?? d
Nullish(v, d) == IF v.t = "undefined" THEN d ELSE v

hasResponse(b) == b.json = "object" /\ b.shape # "none"

hasMetadata(b) == hasResponse(b) /\ b.shape # "noMeta"

hasAnswer(b) == hasResponse(b) /\ b.shape # "noAnswer"

\* responseData.response.metadata.email_<f>, undefined when the path ends early
metaField(b, f) ==
  IF hasMetadata(b) /\ ~(f = "urgency" /\ b.shape = "noUrgency")
  THEN Str(ElemA) ELSE Undefined

\* responseData.response.answer.email_draft
draftField(b) ==
  IF hasAnswer(b) /\ b.shape # "noDraft" THEN Str(ElemB) ELSE Undefined

NoFields == [sentiment |-> NotSet, urgency |-> NotSet, intention |-> NotSet]

UnknownFields == [sentiment |-> Unknown, urgency |-> Unknown, intention |-> Unknown]

\* what the custom branch does with the value callCustomEndpoint returned:
\* the fields handed to setMetaData, the new draft, and whether a TypeError
\* was thrown on the way (to the catch block around the analysis).
\* The taskpane reads every path with ?. and ?? ; the pane reads them bare, so
\* a missing parent throws, and setMetaData calls urgency.trim()
customAnalysis(im, res, oldDraft) ==
  LET b == res.body
      raw == [f \in {"sentiment", "urgency", "intention"} |-> metaField(b, f)]
  IN IF im = "taskpane"
     THEN [fields |-> [f \in {"sentiment", "urgency", "intention"} |->
                         Nullish(raw[f], Unknown)],
           draft |-> removeHtmlFences(im, Nullish(draftField(b), EmptyString)),
           complete |-> TRUE, shown |-> TRUE, threw |-> FALSE]
     ELSE IF ~hasMetadata(b) \/ ~hasAnswer(b)
             \/ removeHtmlFences(im, draftField(b)) = TypeError
     THEN [fields |-> NoFields, draft |-> oldDraft,
           complete |-> FALSE, shown |-> FALSE, threw |-> TRUE]
     ELSE [fields |-> raw, draft |-> removeHtmlFences(im, draftField(b)),
           complete |-> TRUE, shown |-> TRUE,
           threw |-> (raw["urgency"].t # "string")]

\* what a metadata call or the draft call gives its caller: the returned text,
\* undefined, or (an error was thrown) the value the caller keeps
callValue(res, kept) ==
  IF res.kind = "value" THEN Str(res.body.text)
  ELSE IF res.kind = "undefined" THEN Undefined
  ELSE kept

\* whether the try block around loadConfig in Office.onReady catches its error
configLoadUncaught(im) == FALSE

configLoadCaught(im) == TRUE

\* a comparison that never finds a custom endpoint
customConfiguredNever(url) == FALSE

\* a catch block that only logs
analysisCatchSilent(im) == FALSE

\* whether the catch block around the analysis calls showError: the
\* taskpane's does, the pane's only logs
analysisCatchShowsError(im) == im = "taskpane"

\* a caller that goes on while its call is still suspended in a backoff wait
awaitResumesEarly(c) == c \in {"returned", "thrown", "sleep"}

\* await callCustomEndpoint(...) / await callGeminiAPI(...): the caller goes on
\* once the call has returned or thrown
awaitResumes(c) == c \in {"returned", "thrown"}

\* an analysis that keeps the text of its last metadata call as the draft
draftAfterAnalysisFromCall(d, res) == IF res.kind = "value" THEN Str(res.body.text) ELSE d

\* the draft when the generative branch of the analysis ends: the branch
\* assigns nothing to draft
draftAfterAnalysis(d, res) == d

\* customEndpointUrl !== ""
customConfigured(url) == url # EmptyString

ItemTypes == {"none", "message", "messageCompose", "other"}

\* a mode test that also takes a message being composed
isReadModeOrCompose(it) == it \in {"message", "messageCompose"}

\* item.itemType === Office.MailboxEnums.ItemType.Message
isReadMode(it) == it = "message"

\* a click handler that also runs for a click on the disabled button
clickDispatchedWhenDisabled(lst, dis) == lst

\* a click runs the handler when the listener has been attached and the
\* button is not disabled (a disabled button dispatches no click event)
clickDispatched(lst, dis) == lst /\ ~dis

\* a handler that enables the button at the end of its try block, which a
\* throwing call skips
disabledAfterDraftInTry(res) == res.kind = "error"

\* quickReplyBtn.disabled after the click handler's finally block, which runs
\* whether the draft call returned or threw
disabledAfterDraft(res) == FALSE

\* the html handed to the compose form: the taskpane coerces the draft to a
\* string and strips its fences, the pane hands the draft over as it is
composeHtml(im, d) ==
  IF im = "taskpane"
  THEN removeHtmlFences(im, IF d.t = "string" THEN d ELSE EmptyParagraph)
  ELSE d

(* ------------------------------- state ------------------------------- *)

VARIABLES
  impl,        \* which implementation runs
  configMap,   \* the store map: key -> value
  loads,       \* calls of loadConfig so far
  lastLoad,    \* the answer the last loadConfig got, and the map before it
  lastGet,     \* the last lookup: key, whether it was in the map, the value
               \* Map.get gave, result
  cpc,         \* the retry call: "idle", "fetch", "sleep", "returned", "thrown"
  endpoint,    \* the endpoint of the retry call
  attempts,    \* its attempts counter
  requests,    \* HTTP requests it has issued
  n429,        \* 429 responses it has got
  nFailed,     \* attempts of it that ended in the catch block
  slept,       \* milliseconds it has spent in backoff waits
  jitterSum,   \* the random part of those waits
  nWaits,      \* backoff waits it has started
  lastDelay,   \* the delay of its latest wait
  lastClass,   \* how its latest attempt ended
  result,      \* what it returned or threw
  pc,          \* where the pane is: "boot", "config", "body", "custom",
               \* "sentiment", "urgency", "intention", "ready", "drafting",
               \* "notice", "crashed"
  itemType,    \* Office.context.mailbox.item: its itemType, "none" without item
  customEndpointUrl, \* the constant Office.onReady reads from the store
  btnDisabled, \* btnQuickReply.disabled
  listener,    \* the click listener is attached
  banner,      \* showError has shown the error banner
  status,      \* what responseContainer says
  fields,      \* sentiment, urgency, intention as handed to setMetaData
  metaShown,   \* setMetaData has written the fields
  draft,       \* the draft
  branch,      \* the branch the analysis took: "none", "custom", "gemini"
  callsCustom, \* calls of callCustomEndpoint started
  callsGemini, \* calls of callGeminiAPI started
  clicks,      \* Quick Reply clicks handled
  composed,    \* the html last handed to a compose form
  escaped,     \* an error left Office.onReady or the click handler uncaught
  closed,      \* the user has closed the pane (the host keeps or ends its script)
  content,     \* the argument of a call of removeHtmlFences
  stripped,    \* what that call returned
  again,       \* what removeHtmlFences returned for that returned value
  info,        \* what the last click on the info button did: "none" before any,
               \* "opened" (a help page or the About window), "failed"
  twin,        \* a call of callGeminiAPI that is given the transport outcomes
               \* of the call of callCustomEndpoint in the retry variables
  forms,       \* the host's compose forms: "missing", "throws" or "works" each
  htmlBody,    \* the html openComposeWithHtml hands to the forms
  opc,         \* where openComposeWithHtml is: "idle", the form it is about
               \* to try, "noForm" (none opened), "done"
  tried,       \* the forms it has called, in order
  opened,      \* the forms it has opened, in order
  composeBanner \* it has shown the error banner

storeVars == <<configMap, loads, lastLoad, lastGet>>

retryVars == <<cpc, endpoint, attempts, requests, n429, nFailed, slept, jitterSum,
               nWaits, lastDelay, lastClass, result>>

paneVars == <<pc, itemType, customEndpointUrl, btnDisabled, listener, banner, status,
              fields, metaShown, draft, branch, callsCustom, callsGemini, clicks,
              composed, escaped, closed, info>>

fenceVars == <<content, stripped, again>>

composeVars == <<forms, htmlBody, opc, tried, opened, composeBanner>>

vars == <<impl, storeVars, retryVars, paneVars, fenceVars, twin, composeVars>>

NoLoad == [called |-> FALSE, resp |-> [ok |-> FALSE, parsable |-> FALSE, doc |-> NoDoc],
           before |-> NoDoc]

NoGet == [called |-> FALSE, key |-> "", present |-> FALSE, loaded |-> FALSE,
          raw |-> Undefined, result |-> Undefined]

StoreInit ==
  /\ configMap = NoDoc
  /\ loads = 0
  /\ lastLoad = NoLoad
  /\ lastGet = NoGet

(* ---------------------- operations of the store ---------------------- *)

\* one call of loadConfig(url), the fetch answering resp
LoadConfig(resp) ==
  /\ loads < MaxLoads
  /\ loads' = loads + 1
  /\ configMap' = loadConfig(configMap, resp)
  /\ lastLoad' = [called |-> TRUE, resp |-> resp, before |-> configMap]
  /\ UNCHANGED <<impl, twin, composeVars, fenceVars, lastGet, retryVars, paneVars>>

\* one call of getVar(key)
GetVar(key) ==
  /\ lastGet' = [called |-> TRUE, key |-> key,
                 present |-> key \in DOMAIN configMap,
                 loaded |-> Cardinality(DOMAIN configMap) # 0,
                 raw |-> IF key \in DOMAIN configMap THEN configMap[key]
                         ELSE Undefined,
                 result |-> getVar(configMap, key)]
  /\ UNCHANGED <<impl, twin, composeVars, fenceVars, configMap, loads, lastLoad, retryVars, paneVars>>

StoreNext ==
  \/ \E resp \in ConfigResponses : LoadConfig(resp)
  \/ \E key \in Keys : GetVar(key)

\* the pane when its script has been evaluated
PaneFresh ==
  /\ pc = "boot"
  /\ customEndpointUrl = NotSet
  /\ listener = FALSE
  /\ banner = FALSE
  /\ status = ""
  /\ fields = NoFields
  /\ metaShown = FALSE
  /\ draft = EmptyString
  /\ branch = "none"
  /\ callsCustom = 0
  /\ callsGemini = 0
  /\ clicks = 0
  /\ composed = NotSet
  /\ escaped = FALSE
  /\ closed = FALSE
  /\ info = "none"

\* the pane left alone, for the runs of the store and of the retry client
PaneIdle == PaneFresh /\ itemType = "none" /\ btnDisabled = TRUE

\* removeHtmlFences not called
FenceIdle == content = EmptyString /\ stripped = NotSet /\ again = NotSet

\* no call followed beside the retry variables
TwinIdle == twin = NoTwin

\* openComposeWithHtml not called
ComposeIdle ==
  /\ forms = [f \in ComposeForms |-> "works"]
  /\ htmlBody = NotSet
  /\ opc = "idle"
  /\ tried = <<>>
  /\ opened = <<>>
  /\ composeBanner = FALSE

(* -------------------- operations of the retry client ----------------- *)

RetryInit ==
  /\ cpc = "idle"
  /\ endpoint = "custom"
  /\ attempts = 0
  /\ requests = 0
  /\ n429 = 0
  /\ nFailed = 0
  /\ slept = 0
  /\ jitterSum = 0
  /\ nWaits = 0
  /\ lastDelay = 0
  /\ lastClass = "none"
  /\ result = NoResult

\* the call begins: the check before the loop, let attempts = 0, the first
\* evaluation of the loop condition and the first fetch
BeginCall(ep) ==
  /\ endpoint' = ep
  /\ attempts' = initialAttempts(attempts)
  /\ n429' = 0
  /\ nFailed' = 0
  /\ slept' = 0
  /\ jitterSum' = 0
  /\ nWaits' = 0
  /\ lastDelay' = 0
  /\ lastClass' = "none"
  /\ IF precheckThrows(impl, ep, configMap)
     THEN /\ cpc' = "thrown"
          /\ requests' = 0
          /\ result' = Thrown("notConfigured")
     ELSE /\ cpc' = "fetch"
          /\ requests' = 1
          /\ result' = NoResult

\* the pending fetch settles with resp (its body read): a 429 starts a backoff
\* wait; a valid body is returned; anything else lands in the catch block,
\* which throws once attempts >= maxAttempts and otherwise lets the loop
\* issue the next fetch
FetchSettles(resp, jitter) ==
  /\ cpc = "fetch"
  /\ lastClass' = classify(endpoint, resp)
  /\ UNCHANGED <<endpoint, slept>>
  /\ IF classify(endpoint, resp) = "rateLimited"
     THEN /\ lastDelay' = backoffDelay(attempts, jitter)
          /\ jitterSum' = jitterSum + jitter
          /\ nWaits' = nWaits + 1
          /\ attempts' = attempts + 1
          /\ n429' = n429 + 1
          /\ cpc' = "sleep"
          /\ UNCHANGED <<requests, nFailed, result>>
     ELSE IF classify(endpoint, resp) = "valid"
     THEN /\ cpc' = "returned"
          /\ result' = Returned(resp.body)
          /\ UNCHANGED <<attempts, requests, n429, nFailed, jitterSum, nWaits,
                         lastDelay>>
     ELSE /\ attempts' = attempts + 1
          /\ nFailed' = nFailed + 1
          /\ UNCHANGED <<n429, jitterSum, nWaits, lastDelay>>
          /\ IF exhausted(attempts + 1)
             THEN /\ cpc' = "thrown"
                  /\ result' = Thrown("exhausted")
                  /\ UNCHANGED requests
             ELSE IF loopContinues(attempts + 1)
             THEN /\ cpc' = "fetch"
                  /\ requests' = requests + 1
                  /\ UNCHANGED result
             ELSE /\ cpc' = "returned"
                  /\ result' = ReturnedUndefined
                  /\ UNCHANGED requests

\* the backoff timer fires: continue, so the loop condition is evaluated; the
\* next fetch is issued, or the loop ends and the function returns undefined
TimerFires ==
  /\ cpc = "sleep"
  /\ slept' = slept + lastDelay
  /\ UNCHANGED <<endpoint, attempts, n429, nFailed, jitterSum, nWaits, lastDelay,
                 lastClass>>
  /\ IF loopContinues(attempts)
     THEN /\ cpc' = "fetch"
          /\ requests' = requests + 1
          /\ UNCHANGED result
     ELSE /\ cpc' = "returned"
          /\ result' = ReturnedUndefined
          /\ UNCHANGED requests

\* a caller starts a call of callCustomEndpoint or callGeminiAPI
StartCall(ep) ==
  /\ cpc \in {"idle", "returned", "thrown"}
  /\ BeginCall(ep)
  /\ UNCHANGED <<impl, twin, composeVars, fenceVars, storeVars, paneVars>>

Settle(resp, jitter) ==
  /\ FetchSettles(resp, jitter)
  /\ UNCHANGED <<impl, twin, composeVars, fenceVars, storeVars, paneVars>>

Wake ==
  /\ TimerFires
  /\ UNCHANGED <<impl, twin, composeVars, fenceVars, storeVars, paneVars>>

RetryNext ==
  \/ \E ep \in Endpoints : StartCall(ep)
  \/ \E resp \in Responses, jitter \in Jitters : Settle(resp, jitter)
  \/ Wake

\* the store after the startup load, as the calls find it
LoadedMaps ==
  { loadConfig(NoDoc, r) : r \in
      { [ok |-> FALSE, parsable |-> TRUE, doc |-> NoDoc] }
      \cup { [ok |-> TRUE, parsable |-> TRUE, doc |-> d] :
               d \in UNION { [ks -> {Str(ElemA)}] : ks \in SUBSET Keys } } }

InitRetry ==
  /\ impl \in Impls
  /\ configMap \in LoadedMaps
  /\ loads = 1
  /\ lastLoad = NoLoad
  /\ lastGet = NoGet
  /\ RetryInit
  /\ PaneIdle
  /\ FenceIdle
  /\ TwinIdle
  /\ ComposeIdle

\* calls of the retry client against a transport that answers anything
SpecRetry == InitRetry /\ [][RetryNext]_vars

InitStore ==
  /\ impl \in Impls
  /\ StoreInit
  /\ RetryInit
  /\ PaneIdle
  /\ FenceIdle
  /\ TwinIdle
  /\ ComposeIdle

\* the store driven through its two operations
SpecStore == InitStore /\ [][StoreNext]_vars

(* ------------------------ operations of the pane ---------------------- *)

\* the call frame is gone once its caller has taken the result
EndCall ==
  /\ cpc' = "idle"
  /\ endpoint' = "custom"
  /\ attempts' = 0
  /\ requests' = 0
  /\ n429' = 0
  /\ nFailed' = 0
  /\ slept' = 0
  /\ jitterSum' = 0
  /\ nWaits' = 0
  /\ lastDelay' = 0
  /\ lastClass' = "none"
  /\ result' = NoResult

\* the documents config.json holds in a session
SessionDocs == UNION { [ks -> {Str(<<>>), Str(ElemA)}] : ks \in SUBSET Keys }

SessionConfigResponses ==
  { [ok |-> FALSE, parsable |-> TRUE, doc |-> NoDoc],
    [ok |-> TRUE, parsable |-> FALSE, doc |-> NoDoc] }
  \cup { [ok |-> TRUE, parsable |-> TRUE, doc |-> d] : d \in SessionDocs }

\* Office.onReady fires: loadConfig starts the fetch of config.json
OnReady ==
  /\ pc = "boot"
  /\ pc' = "config"
  /\ UNCHANGED <<impl, twin, composeVars, fenceVars, closed, info, storeVars, retryVars, itemType, customEndpointUrl,
                 btnDisabled, listener, banner, status, fields, metaShown, draft,
                 branch, callsCustom, callsGemini, clicks, composed, escaped>>

\* the fetch of config.json settles: loadConfig fills the store or throws, the
\* handler reads its constants from the store and looks at the item and its
\* mode; in read mode it enables the button and asks for the body
ConfigSettles(resp) ==
  /\ pc = "config"
  /\ loads' = loads + 1
  /\ lastLoad' = [called |-> TRUE, resp |-> resp, before |-> configMap]
  /\ configMap' = loadConfig(configMap, resp)
  /\ UNCHANGED <<impl, twin, composeVars, fenceVars, closed, info, lastGet, retryVars, itemType, listener, banner, fields,
                 metaShown, draft, branch, callsCustom, callsGemini, clicks,
                 composed>>
  /\ IF ~loadSucceeds(resp) /\ ~configLoadCaught(impl)
     THEN /\ pc' = "crashed"
          /\ escaped' = TRUE
          /\ UNCHANGED <<customEndpointUrl, btnDisabled, status>>
     ELSE /\ customEndpointUrl' =
               getVar(loadConfig(configMap, resp), "customendpoint_url")
          /\ escaped' = escaped
          /\ IF isReadMode(itemType)
             THEN /\ pc' = "body"
                  /\ btnDisabled' = FALSE
                  /\ status' = status
             ELSE /\ pc' = "notice"
                  /\ btnDisabled' = TRUE
                  /\ status' = IF itemType = "messageCompose"
                               THEN "composeNotice" ELSE "emailOnlyNotice"

\* getEmailBody settles.  A rejection is thrown outside every try block.
\* Otherwise the analysis starts: the custom branch when
\* customEndpointUrl !== "", else the first of the three metadata calls
BodySettles(ok) ==
  /\ pc = "body"
  /\ UNCHANGED <<impl, twin, composeVars, fenceVars, closed, info, storeVars, itemType, customEndpointUrl, btnDisabled,
                 listener, banner, metaShown, draft, clicks, composed>>
  /\ IF ~ok
     THEN /\ pc' = "crashed"
          /\ escaped' = TRUE
          /\ UNCHANGED <<retryVars, status, fields, branch, callsCustom,
                         callsGemini>>
     ELSE /\ status' = "analyzing"
          /\ escaped' = escaped
          /\ IF customConfigured(customEndpointUrl)
             THEN /\ branch' = "custom"
                  /\ callsCustom' = callsCustom + 1
                  /\ BeginCall("custom")
                  /\ pc' = "custom"
                  /\ UNCHANGED <<fields, callsGemini>>
             ELSE /\ branch' = "gemini"
                  /\ fields' = UnknownFields
                  /\ callsGemini' = callsGemini + 1
                  /\ BeginCall("gemini")
                  /\ pc' = "sentiment"
                  /\ UNCHANGED callsCustom

\* callCustomEndpoint has ended: its value is read into the fields and the
\* draft, or its error is caught (the taskpane shows the banner); then the
\* click listener is attached
CustomDone ==
  /\ pc = "custom"
  /\ awaitResumes(cpc)
  /\ EndCall
  /\ pc' = "ready"
  /\ listener' = TRUE
  /\ UNCHANGED <<impl, twin, composeVars, fenceVars, closed, info, storeVars, itemType, customEndpointUrl, btnDisabled,
                 branch, callsCustom, callsGemini, clicks, composed, escaped>>
  /\ IF result.kind = "error"
     THEN /\ banner' = (banner \/ analysisCatchShowsError(impl))
          /\ status' = IF analysisCatchShowsError(impl) THEN "analysisFailed"
                       ELSE status
          /\ UNCHANGED <<fields, metaShown, draft>>
     ELSE LET o == customAnalysis(impl, result, draft)
          IN /\ fields' = o.fields
             /\ draft' = o.draft
             /\ metaShown' = o.shown
             /\ banner' = (banner \/ (o.threw /\ analysisCatchShowsError(impl)))
             /\ status' = IF o.threw /\ analysisCatchShowsError(impl)
                          THEN "analysisFailed"
                          ELSE IF o.complete THEN "complete" ELSE status

\* a metadata call has ended: its value goes into its field (an error leaves
\* "Unknown" there) and the next metadata call starts
MetaDone(field, next) ==
  /\ pc = field
  /\ awaitResumes(cpc)
  /\ fields' = [fields EXCEPT ![field] = callValue(result, @)]
  /\ callsGemini' = callsGemini + 1
  /\ BeginCall("gemini")
  /\ pc' = next
  /\ UNCHANGED <<impl, twin, composeVars, fenceVars, closed, info, storeVars, itemType, customEndpointUrl, btnDisabled,
                 listener, banner, status, metaShown, draft, branch, callsCustom,
                 clicks, composed, escaped>>

SentimentDone == MetaDone("sentiment", "urgency")

UrgencyDone == MetaDone("urgency", "intention")

\* the intention call has ended: setMetaData writes the three fields and the
\* click listener is attached
IntentionDone ==
  /\ pc = "intention"
  /\ awaitResumes(cpc)
  /\ fields' = [fields EXCEPT !["intention"] = callValue(result, @)]
  /\ EndCall
  /\ status' = "complete"
  /\ metaShown' = TRUE
  /\ listener' = TRUE
  /\ pc' = "ready"
  /\ draft' = draftAfterAnalysis(draft, result)
  /\ UNCHANGED <<impl, twin, composeVars, fenceVars, closed, info, storeVars, itemType, customEndpointUrl, btnDisabled,
                 banner, branch, callsCustom, callsGemini, clicks,
                 composed, escaped>>

\* a click on the enabled Quick Reply button: the button is disabled; with
\* customEndpointUrl === "" the draft call starts, otherwise the handler runs
\* through: the button is enabled again and the draft is handed to compose
Click ==
  /\ clickDispatched(listener, btnDisabled)
  /\ ~closed
  /\ clicks < MaxClicks
  /\ clicks' = clicks + 1
  /\ UNCHANGED <<impl, twin, composeVars, fenceVars, closed, info, storeVars, itemType, customEndpointUrl, listener, banner,
                 fields, metaShown, draft, branch, callsCustom, escaped>>
  /\ IF ~customConfigured(customEndpointUrl)
     THEN /\ btnDisabled' = TRUE
          /\ status' = "generating"
          /\ callsGemini' = callsGemini + 1
          /\ BeginCall("gemini")
          /\ pc' = "drafting"
          /\ UNCHANGED composed
     ELSE /\ btnDisabled' = FALSE
          /\ status' = "generated"
          /\ composed' = composeHtml(impl, draft)
          /\ UNCHANGED <<retryVars, pc, callsGemini>>

\* the draft call has ended: its text is the draft, or the fallback when it
\* threw; the button is enabled again and the draft is handed to compose
DraftDone ==
  /\ pc = "drafting"
  /\ awaitResumes(cpc)
  /\ draft' = callValue(result, FallbackHtml)
  /\ EndCall
  /\ btnDisabled' = disabledAfterDraft(result)
  /\ status' = "generated"
  /\ composed' = composeHtml(impl, callValue(result, FallbackHtml))
  /\ pc' = "ready"
  /\ UNCHANGED <<impl, twin, composeVars, fenceVars, closed, info, storeVars, itemType, customEndpointUrl, listener, banner,
                 fields, metaShown, branch, callsCustom, callsGemini, clicks,
                 escaped>>

\* the user closes the pane while a call of the retry client is suspended in
\* a request or a backoff wait.  Nothing in the script listens for this or
\* records it: where the host keeps the script alive, its pending steps go on
\* as before
ClosePane ==
  /\ ~closed
  /\ cpc \in {"fetch", "sleep"}
  /\ closed' = TRUE
  /\ UNCHANGED <<impl, twin, composeVars, fenceVars, storeVars, retryVars, pc, itemType,
                 info, customEndpointUrl, btnDisabled, listener, banner, status, fields,
                 metaShown, draft, branch, callsCustom, callsGemini, clicks,
                 composed, escaped>>

\* a handler that keeps the help address it found in the store
InfoClickStoresHelpUrl(opens) ==
  /\ impl = "taskpane"
  /\ ~closed
  /\ info' = (IF opens THEN "opened" ELSE "failed")
  /\ configMap' = [k \in (DOMAIN configMap) \cup {"helpUrl"} |->
                     IF k = "helpUrl" THEN EmptyString ELSE configMap[k]]
  /\ UNCHANGED <<impl, twin, composeVars, fenceVars, loads, lastLoad, lastGet,
                 retryVars, pc, itemType, customEndpointUrl, btnDisabled,
                 listener, banner, status, fields, metaShown, draft, branch,
                 callsCustom, callsGemini, clicks, composed, escaped, closed>>

\* a click on the info button of the taskpane (pane.js wires none): the
\* handler reads helpUrl from the store and opens the help page or, without
\* one, the About window; if window.open throws, showError reports it
InfoClick(opens) ==
  /\ impl = "taskpane"
  /\ ~closed
  /\ info' = (IF opens THEN "opened" ELSE "failed")
  /\ UNCHANGED <<impl, twin, composeVars, fenceVars, storeVars, retryVars, pc,
                 itemType, customEndpointUrl, btnDisabled, listener, banner,
                 status, fields, metaShown, draft, branch, callsCustom,
                 callsGemini, clicks, composed, escaped, closed>>

Init ==
  /\ impl \in Impls
  /\ StoreInit
  /\ RetryInit
  /\ PaneFresh
  /\ FenceIdle
  /\ TwinIdle
  /\ ComposeIdle
  /\ itemType \in ItemTypes
  /\ btnDisabled \in (IF impl = "taskpane" THEN {TRUE} ELSE BOOLEAN)

\* the steps of the script and of the user at the open pane
OpenNext ==
  \/ OnReady
  \/ \E resp \in SessionConfigResponses : ConfigSettles(resp)
  \/ \E ok \in BOOLEAN : BodySettles(ok)
  \/ \E resp \in Responses, jitter \in Jitters : Settle(resp, jitter)
  \/ Wake
  \/ CustomDone
  \/ SentimentDone
  \/ UrgencyDone
  \/ IntentionDone
  \/ Click
  \/ DraftDone

Next == OpenNext \/ ClosePane

\* one session of the pane
Spec == Init /\ [][Next]_vars

NextWithInfo == Next \/ \E opens \in BOOLEAN : InfoClick(opens)

\* one session of the pane in which the user also clicks the info button
SpecWithInfo == Init /\ [][NextWithInfo]_vars


\* a session at a pane that stays open, in which every pending fetch settles,
\* every backoff timer fires and the click handler resumes when its call ends
FairSpec ==
  /\ Init
  /\ [][OpenNext]_vars
  /\ WF_vars(\E resp \in Responses, jitter \in Jitters : Settle(resp, jitter))
  /\ WF_vars(Wake)
  /\ WF_vars(DraftDone)

\* every pending fetch settles and every backoff timer fires
FairSpecRetry ==
  /\ SpecRetry
  /\ WF_vars(\E resp \in Responses, jitter \in Jitters : Settle(resp, jitter))
  /\ WF_vars(Wake)

(* --------------- the two clients on one run of the transport ----------- *)

\* callCustomEndpoint (in the retry variables) and callGeminiAPI (in twin)
\* are called together; a pair that has ended or come apart is replaced
TwinStart ==
  /\ cpc \notin {"fetch", "sleep"} \/ twin.cpc # cpc
  /\ BeginCall("custom")
  /\ twin' = geminiBegins(impl, configMap)
  /\ UNCHANGED <<impl, composeVars, fenceVars, storeVars, paneVars>>

\* the transport answers the pending fetch of each call with resp; each call
\* draws its own jitter
TwinSettle(resp, jitter, twinJitter) ==
  /\ twin.cpc = "fetch"
  /\ FetchSettles(resp, jitter)
  /\ twin' = geminiSettles(twin, resp, twinJitter)
  /\ UNCHANGED <<impl, composeVars, fenceVars, storeVars, paneVars>>

\* the backoff timers of the two calls fire
TwinWake ==
  /\ twin.cpc = "sleep"
  /\ TimerFires
  /\ twin' = geminiWakes(twin)
  /\ UNCHANGED <<impl, composeVars, fenceVars, storeVars, paneVars>>

TwinNext ==
  \/ TwinStart
  \/ \E resp \in Responses, jitter \in Jitters, twinJitter \in Jitters :
       TwinSettle(resp, jitter, twinJitter)
  \/ TwinWake

InitTwin ==
  /\ impl \in Impls
  /\ configMap \in LoadedMaps
  /\ loads = 1
  /\ lastLoad = NoLoad
  /\ lastGet = NoGet
  /\ RetryInit
  /\ PaneIdle
  /\ FenceIdle
  /\ TwinIdle
  /\ ComposeIdle

\* the two clients against one transport that answers anything
SpecTwin == InitTwin /\ [][TwinNext]_vars

(* -------------------------- openComposeWithHtml ------------------------ *)

\* what a host makes of the three forms
Hosts == [ComposeForms -> {"missing", "throws", "works"}]

\* the cleaned drafts the click handler hands over: "", "<p></p>", a text, the
\* fallback html
ComposeInputs == {EmptyString, EmptyParagraph, Str(ElemB), FallbackHtml}

\* the click handler calls openComposeWithHtml(item, cleanedDraft, subject) at
\* a host
ComposeStart(host, html) ==
  /\ opc \in {"idle", "done"}
  /\ forms' = host
  /\ htmlBody' = composeBody(html)
  /\ opc' = "replyAll"
  /\ tried' = <<>>
  /\ opened' = <<>>
  /\ composeBanner' = FALSE
  /\ UNCHANGED <<impl, twin, fenceVars, storeVars, retryVars, paneVars>>

\* the block of one form: the typeof test, the call inside its own try, the
\* return after it
TryForm(f) ==
  /\ opc = f
  /\ tried' = IF forms[f] = "missing" THEN tried ELSE Append(tried, f)
  /\ opened' = IF forms[f] = "works" THEN Append(opened, f) ELSE opened
  /\ opc' = afterForm(f, forms[f])
  /\ UNCHANGED <<impl, twin, fenceVars, storeVars, retryVars, paneVars, forms,
                 htmlBody, composeBanner>>

TryReplyAll == TryForm("replyAll")

TryReply == TryForm("reply")

TryNewMessage == TryForm("newMessage")

\* no block has returned: showError("Unable to open a draft ...")
ComposeFails ==
  /\ opc = "noForm"
  /\ composeBanner' = TRUE
  /\ opc' = "done"
  /\ UNCHANGED <<impl, twin, fenceVars, storeVars, retryVars, paneVars, forms,
                 htmlBody, tried, opened>>

ComposeNext ==
  \/ \E host \in Hosts, html \in ComposeInputs : ComposeStart(host, html)
  \/ TryReplyAll
  \/ TryReply
  \/ TryNewMessage
  \/ ComposeFails

InitCompose ==
  /\ impl = "taskpane"
  /\ StoreInit
  /\ RetryInit
  /\ PaneIdle
  /\ FenceIdle
  /\ TwinIdle
  /\ ComposeIdle

\* calls of openComposeWithHtml at hosts of every kind
SpecCompose == InitCompose /\ [][ComposeNext]_vars

(* --------------------------- removeHtmlFences -------------------------- *)

\* "`", "a", newline: the characters of the middle part
FenceChars == {96, 97, LF}

\* the strings over FenceChars of length at most n
RECURSIVE StringsUpTo(_)
StringsUpTo(n) ==
  IF n = 0 THEN {<<>>}
  ELSE StringsUpTo(n - 1)
         \cup { <<c>> \o t : c \in FenceChars,
                              t \in { u \in StringsUpTo(n - 1) : Len(u) = n - 1 } }

\* how a sampled argument begins: nothing, the fence, the fence without its
\* newline, the fence with two backticks, the fence after a space, the fence
\* in upper case, two fences
FencePrefixes ==
  { <<>>, Fence, <<96, 96, 96, 104, 116, 109, 108>>,
    <<96, 96, 104, 116, 109, 108, LF>>, <<32>> \o Fence,
    <<96, 96, 96, 72, 84, 77, 76, LF>>, Fence \o Fence }

\* how it ends: nothing, the closing fence, two backticks, the closing fence
\* before a newline, two closing fences
FenceSuffixes ==
  { <<>>, FenceEnd, <<96, 96>>, FenceEnd \o <<LF>>, FenceEnd \o FenceEnd }

\* the string arguments removeHtmlFences is called with
FenceInputs ==
  { Str(p \o m \o e) :
      p \in FencePrefixes, m \in StringsUpTo(MaxMiddle), e \in FenceSuffixes }

\* what is handed to removeHtmlFences that is not a string: undefined, null,
\* a number, an object
NonStrings ==
  { [t |-> k, s |-> <<>>, a |-> <<>>] : k \in {"undefined", "null", "number", "object"} }

\* one call of removeHtmlFences(content)
StripFences ==
  /\ stripped = NotSet
  /\ stripped' = removeHtmlFences(impl, content)
  /\ UNCHANGED <<impl, twin, composeVars, content, again, storeVars, retryVars, paneVars>>

\* removeHtmlFences called on what the first call returned, as the click
\* handler does with a draft the analysis has stripped already
StripAgain ==
  /\ stripped # NotSet
  /\ stripped # TypeError
  /\ again = NotSet
  /\ again' = removeHtmlFences(impl, stripped)
  /\ UNCHANGED <<impl, twin, composeVars, content, stripped, storeVars, retryVars, paneVars>>

FenceNext == StripFences \/ StripAgain

InitFences ==
  /\ impl \in Impls
  /\ StoreInit
  /\ RetryInit
  /\ PaneIdle
  /\ content \in FenceInputs \cup NonStrings
  /\ stripped = NotSet
  /\ again = NotSet
  /\ TwinIdle
  /\ ComposeIdle

\* removeHtmlFences applied to each sampled argument
SpecFences == InitFences /\ [][FenceNext]_vars

(* ------------------------------ claims -------------------------------- *)

CallFinished == cpc \in {"returned", "thrown"}

CallRunning == cpc \in {"fetch", "sleep"}

\* C1: a call of the retry client never completes normally without a valid
\* value: whenever it has returned, what it returned is the value extracted
\* from a valid response.
C1_NeverReturnsWithoutValue ==
  cpc = "returned" => result.kind = "value"

\* C2: a finished call whose attempts all ended in a non-429 failure has issued
\* exactly 5 requests and ended by throwing the exhaustion error; nothing is
\* thrown to the caller while such a call is still running.
C2_FiveFailuresThenExhausted ==
  /\ (CallFinished /\ lastClass = "failed" /\ n429 = 0)
       => /\ requests = 5
          /\ nFailed = 5
          /\ cpc = "thrown"
          /\ result = Thrown("exhausted")
  /\ (CallRunning /\ n429 = 0)
       => /\ result = NoResult
          /\ requests = nFailed + 1
          /\ requests <= 5

C2_Witness ==
  /\ cpc = "thrown"
  /\ result = Thrown("exhausted")
  /\ n429 = 0
  /\ requests = 5
  /\ lastClass = "failed"

\* 2^0 + ... + 2^(n-1)
RECURSIVE GeometricSum(_)
GeometricSum(n) == IF n = 0 THEN 0 ELSE Pow2(n - 1) + GeometricSum(n - 1)

\* C3: a call that got n 429 responses, no other failure, and then a valid
\* response has n in 0..4, issued n+1 requests and waited n times, for
\* baseDelay*(2^0 + ... + 2^(n-1)) plus the jitter of each wait in total; for
\* n = 2 that is 3 requests and 3000 ms plus jitter.
C3_BackoffTotal ==
  (cpc = "returned" /\ result.kind = "value" /\ nFailed = 0)
    => /\ n429 \in 0..4
       /\ requests = n429 + 1
       /\ nWaits = n429
       /\ slept = baseDelay * GeometricSum(n429) + jitterSum
       /\ (n429 = 2 => requests = 3 /\ slept = 3000 + jitterSum)

C3_Witness ==
  /\ cpc = "returned"
  /\ result.kind = "value"
  /\ nFailed = 0
  /\ n429 = 2
  /\ requests = 3
  /\ jitterSum = jitterRange - 1
  /\ slept = 3999

\* a response that is a failure other than a 429: the fetch rejected, the
\* status is outside 2xx and not 429, or the 2xx body has no valid shape
NonRateLimitFailure(ep, resp) ==
  \/ resp.rejected
  \/ resp.status \notin (200..299) \cup {429}
  \/ /\ resp.status \in 200..299
     /\ IF ep = "custom"
        THEN resp.body.json \notin TruthyJson
        ELSE ~(resp.body.json = "object" /\ resp.body.depth = 4
               /\ resp.body.text # <<>>)

\* C4: a backoff wait starts only on a 429 response; an attempt that ends in
\* any other failure adds exactly one to the attempts counter, starts no wait
\* and, while attempts remain, is followed at once by the next request.
C4_BackoffOnlyAfter429 ==
  [][ /\ (cpc' = "sleep" /\ cpc # "sleep")
         => \E jitter \in Jitters : Settle(Response(429, NoBody), jitter)
      /\ \A resp \in Responses, jitter \in Jitters :
           (Settle(resp, jitter) /\ NonRateLimitFailure(endpoint, resp))
             => /\ attempts' = attempts + 1
                /\ nWaits' = nWaits
                /\ slept' = slept
                /\ cpc' # "sleep"
                /\ (attempts' < 5 => cpc' = "fetch" /\ requests' = requests + 1)
                /\ (attempts' >= 5 => cpc' = "thrown")
    ]_vars

C4_Witness ==
  /\ cpc = "fetch"
  /\ lastClass = "failed"
  /\ attempts = 3
  /\ requests = 4
  /\ n429 = 1
  /\ nFailed = 2
  /\ nWaits = 1
  /\ slept = lastDelay

\* C5: every call of the retry client ends, having issued at most 5 requests.
C5_Terminates ==
  /\ [](requests <= 5)
  /\ (CallRunning ~> CallFinished)

C5_Witness ==
  /\ CallFinished
  /\ requests = 5
  /\ n429 > 0
  /\ nFailed > 0

\* C6: a lookup of a key that is absent from the store returns the empty
\* string, whether the store is empty or holds other keys.
C6_AbsentKeyGivesEmptyString ==
  (lastGet.called /\ ~lastGet.present) => lastGet.result = EmptyString

\* C7 as stated: after a successful load the store holds exactly the entries
\* of the document just loaded.
C7_LoadReplacesAll ==
  (lastLoad.called /\ loadSucceeds(lastLoad.resp))
    => configMap = lastLoad.resp.doc

\* C7 as amended: after a successful load every key of the document just
\* loaded has the document's value, and every key the store held before that
\* the document lacks is still present with its earlier value.
C7_LoadMergesByKey ==
  (lastLoad.called /\ loadSucceeds(lastLoad.resp))
    => /\ DOMAIN configMap = (DOMAIN lastLoad.before) \cup (DOMAIN lastLoad.resp.doc)
       /\ \A k \in DOMAIN lastLoad.resp.doc : configMap[k] = lastLoad.resp.doc[k]
       /\ \A k \in (DOMAIN lastLoad.before) \ (DOMAIN lastLoad.resp.doc) :
            configMap[k] = lastLoad.before[k]

C7_Witness ==
  /\ lastLoad.called
  /\ loadSucceeds(lastLoad.resp)
  /\ loads = 2
  /\ "google_api_key" \in DOMAIN lastLoad.before
  /\ "google_api_key" \notin DOMAIN lastLoad.resp.doc
  /\ "google_api_key" \in DOMAIN configMap
  /\ "customendpoint_url" \in DOMAIN lastLoad.resp.doc

\* where element i of elems starts in the joined string, counted from 0
RECURSIVE JoinOffset(_, _)
JoinOffset(elems, i) ==
  IF i = 1 THEN 0 ELSE JoinOffset(elems, i - 1) + Len(elems[i - 1]) + 1

\* r is the elements of elems in their order, one newline between neighbours
JoinedInOrder(elems, r) ==
  /\ Len(r) = IF elems = <<>> THEN 0
              ELSE JoinOffset(elems, Len(elems)) + Len(elems[Len(elems)])
  /\ \A i \in 1..Len(elems) :
       /\ SubSeq(r, JoinOffset(elems, i) + 1, JoinOffset(elems, i) + Len(elems[i]))
            = elems[i]
       /\ i < Len(elems) => r[JoinOffset(elems, i) + Len(elems[i]) + 1] = 10

\* C8: a lookup of an array-valued entry returns its elements joined by a
\* newline in their order; a lookup of a scalar entry returns the value as-is.
C8_ArrayJoinedByNewline ==
  (lastGet.called /\ lastGet.present)
    => IF lastGet.raw.t = "array"
       THEN /\ lastGet.result.t = "string"
            /\ JoinedInOrder(lastGet.raw.a, lastGet.result.s)
       ELSE lastGet.result = lastGet.raw

C8_Witness ==
  /\ lastGet.called
  /\ lastGet.raw = Arr(<<ElemB, <<>>, ElemA>>)
  /\ lastGet.result = Str(<<98, 10, 10, 97>>)

LoadFailed == lastLoad.called /\ ~loadSucceeds(lastLoad.resp)

UrlConfigured ==
  /\ "customendpoint_url" \in DOMAIN configMap
  /\ configMap["customendpoint_url"].t = "string"
  /\ configMap["customendpoint_url"].s # <<>>

\* C10: the analysis takes the custom branch, with exactly one call of
\* callCustomEndpoint and no metadata call, if and only if the store holds a
\* non-empty custom endpoint URL; otherwise (a loaded configuration without
\* the customendpoint_url key included) it takes the generative branch and,
\* by its end, has issued the three metadata calls.
C10_CustomBranchIffConfigured ==
  branch # "none"
    => IF UrlConfigured
       THEN branch = "custom" /\ callsCustom = 1 /\ callsGemini = 0
       ELSE /\ branch = "gemini"
            /\ callsCustom = 0
            /\ (pc = "ready" /\ clicks = 0 => callsGemini = 3)

MetaFields == {"sentiment", "urgency", "intention"}

\* the step in which the metadata call for field f hands over its outcome
MetaCallEnds(f) == pc = f /\ pc' # f

\* C11: in the generative branch the three metadata calls are all issued,
\* whatever the outcome of the others; when a call ends, its field holds the
\* call's text if the call produced one and "Unknown" if the call failed, the
\* other two fields are untouched, and no field changes after the analysis.
C11_EachFieldFollowsOwnCall ==
  /\ []((branch = "gemini" /\ pc \in {"ready", "drafting"})
          => callsGemini = 3 + clicks)
  /\ [][ /\ \A f \in MetaFields :
              MetaCallEnds(f)
                => /\ fields'[f] = IF result.kind = "value"
                                   THEN Str(result.body.text) ELSE Unknown
                   /\ \A g \in MetaFields \ {f} : fields'[g] = fields[g]
         /\ pc \in {"ready", "drafting"} => fields' = fields
       ]_vars

\* the step in which the custom branch takes the outcome of callCustomEndpoint
CustomCallEnds == pc = "custom" /\ pc' = "ready"

\* the value a field read from the response has, with its default d
Defaulted(v, d) == IF v.t = "undefined" THEN d ELSE v

\* C12: the custom branch has no partial success: when callCustomEndpoint
\* returns a response, the three metadata fields and the draft are all set,
\* each to the response's value or, where its path is missing, to its own
\* default, and no failure is shown; when the call fails, the failure is shown
\* and neither a field nor the draft is written.
C12_NoPartialSuccess ==
  [][ CustomCallEnds
        => IF result.kind = "value"
           THEN /\ \A f \in MetaFields :
                     fields'[f] = Defaulted(metaField(result.body, f), Unknown)
                /\ draft' = Defaulted(draftField(result.body), EmptyString)
                /\ metaShown'
                /\ banner' = banner
           ELSE /\ fields' = fields
                /\ draft' = draft
                /\ metaShown' = metaShown
                /\ banner'
    ]_vars

\* a returned response that lacks exactly email_urgency among its paths
UrgencyMissing(res) == res.kind = "value" /\ res.body.shape = "noUrgency"

\* C13: in either implementation, when the custom endpoint's response lacks
\* response.metadata.email_urgency, the analysis gives urgency "Unknown",
\* gives sentiment and intention the response's values, sets the draft and
\* completes without an error.
C13_MissingUrgencyIsUnknown ==
  [][ (CustomCallEnds /\ UrgencyMissing(result))
        => /\ fields'["urgency"] = Unknown
           /\ fields'["sentiment"] = metaField(result.body, "sentiment")
           /\ fields'["intention"] = metaField(result.body, "intention")
           /\ fields'["sentiment"].t = "string"
           /\ fields'["intention"].t = "string"
           /\ status' = "complete"
           /\ ~banner'
           /\ ~customAnalysis(impl, result, draft).threw
    ]_vars

\* the step in which the click handler takes the outcome of the draft call
DraftCallEnds == pc = "drafting" /\ pc' = "ready"

\* C14: the click handler lets no error out, and whenever the draft call ends
\* without a valid text (it threw for a missing API key or after its attempts
\* ran out, on any mix of 429 and other failures) the draft and the html
\* handed to the compose form are the fallback html.
C14_FailedDraftIsFallback ==
  /\ []((pc \in {"ready", "drafting"}) => ~escaped)
  /\ [][ (DraftCallEnds /\ result.kind # "value")
           => /\ draft' = FallbackHtml
              /\ composed' = FallbackHtml
              /\ ~escaped'
       ]_vars

\* the step in which a click on Quick Reply is handled
ClickHandled == clicks' = clicks + 1

C16_ButtonReenabled ==
  /\ [](pc = "drafting" => btnDisabled)
  /\ []((listener /\ pc = "ready") => ~btnDisabled)
  /\ [][ClickHandled => (pc' = "drafting" <=> btnDisabled')]_vars
  /\ ((pc = "drafting") ~> (pc = "ready" /\ ~btnDisabled))

C16_Witness ==
  /\ pc = "ready"
  /\ clicks = 2
  /\ ~btnDisabled
  /\ draft = FallbackHtml
  /\ composed = FallbackHtml

\* the config load or the analysis is running
StartupRunning ==
  pc \in {"config", "body", "custom", "sentiment", "urgency", "intention"}

\* C17: at most one of config load, analysis and draft generation is in flight:
\* a click is handled only when the startup has finished and no draft
\* generation and no call of the retry client is running, so no generation
\* starts during the config load or the analysis and none starts during
\* another one.
C17_OneOperationAtATime ==
  /\ [](StartupRunning => (~listener /\ clicks = 0))
  /\ [](pc = "drafting" => (listener /\ btnDisabled /\ cpc # "idle"))
  /\ [](pc = "ready" => cpc = "idle")
  /\ [][ClickHandled => (pc = "ready" /\ cpc = "idle" /\ ~StartupRunning)]_vars

C17_Witness ==
  /\ pc = "drafting"
  /\ clicks = 2
  /\ cpc = "sleep"
  /\ btnDisabled

\* C18: once the pane has been closed during a call of the retry client, the
\* outcome of that call is applied nowhere: the metadata fields, the draft and
\* the html handed to the compose form stay as they were at the close.
C18_OrphanedResultIgnored ==
  [][ closed
        => /\ fields' = fields
           /\ metaShown' = metaShown
           /\ draft' = draft
           /\ composed' = composed
    ]_vars

\* C19: no failure is fatal or silent: no error leaves Office.onReady or the
\* click handler, the session never ends in the crashed state, and an analysis
\* that failed has shown the error banner.
C19_NoFailureEscapes ==
  /\ ~escaped
  /\ pc # "crashed"
  /\ (pc = "ready" /\ branch = "custom" /\ ~metaShown) => banner

\* C20: removeHtmlFences on a string that starts with the opening fence and
\* ends with the closing fence returns the interior, that is, the argument is
\* the opening fence, then the returned string, then the closing fence; on
\* every other string it returns the argument unchanged.
C20_StripsExactlyTheFences ==
  (stripped # NotSet /\ content.t = "string")
    => IF StartsWith(content.s, Fence) /\ EndsWith(content.s, FenceEnd)
       THEN /\ stripped.t = "string"
            /\ content.s = Fence \o stripped.s \o FenceEnd
       ELSE stripped = content

C20_Witness ==
  /\ content = Str(Fence \o <<97, LF>> \o FenceEnd \o FenceEnd)
  /\ stripped = Str(<<97, LF>> \o FenceEnd)

\* str starts with the opening fence and ends with the closing fence
Fenced(str) == StartsWith(str, Fence) /\ EndsWith(str, FenceEnd)

\* C21 as stated: for every string, removeHtmlFences applied to its own
\* result gives that result again.
C21_StripTwiceEqualsOnce ==
  (again # NotSet /\ content.t = "string") => again = stripped

\* C21 as amended: removeHtmlFences applied to its own result gives that
\* result again exactly when the result is not itself a fenced string; when
\* it is (the argument was fenced twice), the second application removes the
\* inner pair of fences as well.
C21_StripTwiceUnlessFencedAgain ==
  (again # NotSet /\ content.t = "string")
    => IF Fenced(stripped.s)
       THEN /\ again # stripped
            /\ stripped.s = Fence \o again.s \o FenceEnd
       ELSE again = stripped

C21_Witness ==
  /\ content = Str(Fence \o Fence \o <<97>> \o FenceEnd \o FenceEnd)
  /\ stripped = Str(Fence \o <<97>> \o FenceEnd)
  /\ again = Str(<<97>>)

\* C22: in either implementation removeHtmlFences returns a non-string
\* argument unchanged and raises no error.
C22_NonStringPassesThrough ==
  (stripped # NotSet /\ content.t # "string")
    => (stripped = content /\ stripped # TypeError)

C24_BannerOnlyWhenUnconfigured ==
  banner => (branch = "custom" /\ ~UrlConfigured)

\* C24 as amended: among the failures of the config load, the analysis and
\* the draft generation, the error banner is shown only by the failure of the
\* custom endpoint call of the analysis, whatever made that call throw (an
\* unconfigured endpoint or attempts that ran out), and in the taskpane every
\* such failure shows it; a failed metadata call, a failed config load and a
\* failed draft generation never show it.
C24_BannerOnlyWhenCustomCallThrows ==
  /\ []((branch # "custom" \/ impl = "pane") => ~banner)
  /\ [][ /\ (banner' /\ ~banner)
              => (CustomCallEnds /\ result.kind = "error" /\ impl = "taskpane")
         /\ (CustomCallEnds /\ result.kind = "error" /\ impl = "taskpane")
              => banner'
       ]_vars

C24_Witness ==
  /\ banner
  /\ UrlConfigured
  /\ impl = "taskpane"
  /\ branch = "custom"
  /\ pc = "ready"
  /\ clicks = 1

\* the step in which the pane starts a call of callCustomEndpoint or
\* callGeminiAPI
CallStarts == callsCustom' + callsGemini' = callsCustom + callsGemini + 1

\* C25: every call of the retry client starts with its attempt counter at 0
\* and nothing counted or waited, whatever the call before it used up; so any
\* call, the first or a later one, that ends with the exhaustion error has
\* made its own 5 attempts and 5 requests.
C25_AttemptsScopedToCall ==
  /\ [][CallStarts
          => /\ attempts' = 0
             /\ n429' = 0
             /\ nFailed' = 0
             /\ nWaits' = 0
             /\ slept' = 0
             /\ requests' = (IF cpc' = "fetch" THEN 1 ELSE 0)]_vars
  /\ []((cpc = "thrown" /\ result = Thrown("exhausted"))
          => (attempts = 5 /\ requests = 5 /\ n429 + nFailed = 5))
  /\ [](cpc \in {"fetch", "sleep"} => requests = n429 + nFailed + (IF cpc = "fetch" THEN 1 ELSE 0))

C25_Witness ==
  /\ pc = "drafting"
  /\ callsGemini = 4
  /\ fields = UnknownFields
  /\ cpc = "thrown"
  /\ result = Thrown("exhausted")
  /\ requests = 5
  /\ nFailed = 5

\* a 2xx response whose body the endpoint's extractor takes for a value
ValidResponse(ep, resp) ==
  /\ ~resp.rejected
  /\ resp.status \in 200..299
  /\ IF ep = "custom"
     THEN resp.body.json \in TruthyJson
     ELSE resp.body.json = "object" /\ resp.body.depth = 4 /\ resp.body.text # <<>>

\* a step of a running call that issues a request
RequestIssued == cpc \in {"fetch", "sleep"} /\ requests' = requests + 1

\* C26: the attempt counter of a call stays between 0 and 5; a request is
\* issued only with the counter below 5; and the call returns at the first
\* valid 2xx response, with that response's value and with no further request.
C26_AttemptsBoundedStopsAtFirstValue ==
  /\ [](attempts \in 0..5)
  /\ [](cpc = "fetch" => attempts < 5)
  /\ [][ /\ RequestIssued => attempts' < 5
         /\ \A resp \in Responses, jitter \in Jitters :
              (Settle(resp, jitter) /\ ValidResponse(endpoint, resp))
                => /\ cpc' = "returned"
                   /\ result' = Returned(resp.body)
                   /\ requests' = requests
                   /\ attempts' = attempts
         /\ (cpc = "returned" /\ cpc' = "returned") => requests' = requests
       ]_vars

C26_Witness ==
  /\ cpc = "returned"
  /\ result.kind = "value"
  /\ endpoint = "custom"
  /\ attempts = 4
  /\ requests = 5
  /\ n429 = 2
  /\ nFailed = 2

\* C27: on a 429 the wait is baseDelay * 2^k + jitter with 0 <= jitter < 1000,
\* k being the number of attempts of this call that ended before (earlier 429s
\* and earlier other failures alike), which is the counter before the 429 is
\* counted; the counter then grows by exactly one and the call sleeps for that
\* wait.
C27_DelayFromCounterBefore429 ==
  /\ [](attempts = n429 + nFailed)
  /\ [][ /\ \A jitter \in Jitters :
              Settle(Response(429, NoBody), jitter)
                => /\ lastDelay' = 1000 * Pow2(n429 + nFailed) + jitter
                   /\ jitter >= 0
                   /\ jitter < 1000
                   /\ attempts' = attempts + 1
                   /\ cpc' = "sleep"
         /\ Wake => slept' = slept + lastDelay
       ]_vars

C27_Witness ==
  /\ cpc = "sleep"
  /\ nFailed = 2
  /\ n429 = 1
  /\ attempts = 3
  /\ lastDelay = 4999

\* how many metadata calls have been started when the analysis is at pc
MetaCallsAt(p) ==
  IF p = "sentiment" THEN 1 ELSE IF p = "urgency" THEN 2 ELSE 3

\* C28: in the generative branch the metadata calls run one after another in
\* the order sentiment, urgency, intention: each stage has started exactly its
\* own call and the ones before it, a call is started only when the call
\* before it has returned or thrown (never while it has a request pending or
\* sleeps in a backoff wait), and the stages follow in that order.
C28_MetadataCallsSequential ==
  /\ [](pc \in MetaFields => (branch = "gemini" /\ callsGemini = MetaCallsAt(pc)))
  /\ [][ /\ (CallStarts /\ pc \in MetaFields)
              => /\ cpc \in {"returned", "thrown"}
                 /\ requests' <= 1
         /\ (cpc \in {"fetch", "sleep"}) => ~CallStarts
         /\ (pc = "sentiment" /\ pc' # pc) => pc' = "urgency"
         /\ (pc = "urgency" /\ pc' # pc) => pc' = "intention"
         /\ (pc = "intention" /\ pc' # pc) => pc' = "ready"
         /\ (pc' = "sentiment" /\ pc' # pc) => (pc = "body" /\ cpc = "idle")
       ]_vars

C28_Witness ==
  /\ pc = "urgency"
  /\ cpc = "sleep"
  /\ n429 = 2
  /\ callsGemini = 2
  /\ fields["sentiment"] = Unknown
  /\ fields["intention"] = Unknown

\* C29: in the generative branch, until the first click is handled, the draft
\* is the empty string it was at the start, nothing has been handed to a
\* compose form, and the only calls made are the three metadata calls: the
\* analysis produces no draft and issues no draft request.
C29_NoDraftBeforeClick ==
  /\ []((branch # "custom" /\ clicks = 0)
          => /\ draft = EmptyString
             /\ composed = NotSet
             /\ pc # "drafting"
             /\ callsGemini <= 3
             /\ (pc = "ready" => (callsGemini = 3 /\ cpc = "idle" /\ requests = 0)))
  /\ [][(branch = "gemini" /\ pc = "ready" /\ CallStarts) => ClickHandled]_vars

C29_Witness ==
  /\ branch = "gemini"
  /\ pc = "ready"
  /\ clicks = 0
  /\ draft = EmptyString
  /\ callsGemini = 3
  /\ fields = [sentiment |-> Str(ElemA), urgency |-> Str(ElemA), intention |-> Str(ElemA)]

\* C30: in generative mode every generation overwrites the draft: when the
\* draft call of a click ends, the draft and the html handed to the compose
\* form are that call's text, or the fallback html if the call produced no
\* text, whatever the draft was before.
C30_DraftIsLatestGeneration ==
  [][ DraftCallEnds
        => /\ draft' = IF result.kind = "value"
                       THEN Str(result.body.text) ELSE FallbackHtml
           /\ composed' = draft'
    ]_vars

\* both calls have passed the check before the loop
BothInLoop ==
  /\ twin.cpc # "idle"
  /\ twin.err # "notConfigured"
  /\ result # Thrown("notConfigured")

\* the backoff waits the call of callCustomEndpoint has started, their random
\* parts taken off
BaseWaited == slept + (IF cpc = "sleep" THEN lastDelay ELSE 0) - jitterSum

\* C31: callCustomEndpoint and callGeminiAPI given the same transport outcomes,
\* every parsed body so far valid for both extractors or invalid for both, are
\* at the same place of the loop: they have issued the same number of
\* requests, started the same number of backoff waits of the same total
\* length jitter aside, and ended, if they have, in the same kind of outcome.
C31_SameRetryForBothEndpoints ==
  (BothInLoop /\ twin.alike)
    => /\ requests = twin.requests
       /\ nWaits = twin.nWaits
       /\ BaseWaited = twin.waited - twin.jitters
       /\ attempts = twin.attempts
       /\ cpc = twin.cpc
       /\ result.kind = twin.kind

C31_Witness ==
  /\ twin.alike
  /\ cpc = "thrown"
  /\ twin.cpc = "thrown"
  /\ twin.err = "exhausted"
  /\ requests = 5
  /\ n429 = 2
  /\ nFailed = 3
  /\ jitterSum # twin.jitters

\* the parsed body has candidates[0].content.parts[0].text
TextPathPresent(body) == body.json = "object" /\ body.depth = 4

\* C32: for a 2xx response callGeminiAPI returns the text at
\* candidates[0].content.parts[0].text whenever that path is present, and
\* otherwise, and only then, counts a failed attempt.
C32_TextReturnedIffPathPresent ==
  [][ \A resp \in Responses, jitter \in Jitters :
        ( /\ Settle(resp, jitter)
          /\ endpoint = "gemini"
          /\ ~resp.rejected
          /\ responseOk(resp) )
          => IF TextPathPresent(resp.body)
             THEN /\ cpc' = "returned"
                  /\ result' = Returned(resp.body)
                  /\ attempts' = attempts
             ELSE /\ lastClass' = "failed"
                  /\ attempts' = attempts + 1
                  /\ nFailed' = nFailed + 1
    ]_vars

\* a 2xx response whose body response.json() has parsed
ParsedOk(resp) ==
  ~resp.rejected /\ responseOk(resp) /\ resp.body.json # "unparsable"

C34_ConfigImmutableAfterLoad ==
  /\ [](loads <= 1)
  /\ [](pc \notin {"boot", "config"} => loads = 1)
  /\ [][loads = 1 => (configMap' = configMap /\ loads' = 1)]_vars

C34_Witness ==
  /\ loads = 1
  /\ configMap = [k \in Keys |-> Str(ElemA)]
  /\ branch = "custom"
  /\ pc = "ready"
  /\ clicks = 2
  /\ composed # NotSet
  /\ info = "opened"

\* the place of a form in the order openComposeWithHtml looks for them
Rank(f) == CHOOSE i \in DOMAIN FormOrder : FormOrder[i] = f

\* C35: openComposeWithHtml calls the forms in the order Reply All, Reply,
\* New Message; it calls a form only when each form before it is absent or
\* was called and threw; it opens at most one form in a call; and it shows the
\* error banner only when it has opened none, no form of the host being one
\* that opens.
C35_ComposeFormsInOrder ==
  /\ \A i, j \in DOMAIN tried : i < j => Rank(tried[i]) < Rank(tried[j])
  /\ \A i \in DOMAIN tried : \A g \in ComposeForms :
       Rank(g) < Rank(tried[i])
         => \/ forms[g] = "missing"
            \/ forms[g] = "throws" /\ \E k \in 1..(i - 1) : tried[k] = g
  /\ Len(opened) <= 1
  /\ \A i \in DOMAIN opened : opened[i] = tried[Len(tried)] /\ opc = "done"
  /\ composeBanner
       => /\ opened = <<>>
          /\ opc = "done"
          /\ \A f \in ComposeForms : forms[f] # "works"

C35_Witness ==
  /\ opc = "done"
  /\ forms = [f \in ComposeForms |->
                IF f = "replyAll" THEN "missing"
                ELSE IF f = "reply" THEN "throws" ELSE "works"]
  /\ tried = <<"reply", "newMessage">>
  /\ opened = <<"newMessage">>
  /\ ~composeBanner
  /\ htmlBody = FallbackHtml

\* !apiKey in callGeminiAPI: google_api_key is not configured
KeyMissing == Falsy(getVar(configMap, "google_api_key"))

\* C36: with google_api_key not configured every call of callGeminiAPI throws
\* before its loop: no request, no attempt counted, no wait; so the analysis
\* of the generative branch issues no request at all and ends with sentiment,
\* urgency and intention all "Unknown".
C36_NoKeyNoRequest ==
  /\ [][(CallStarts /\ endpoint' = "gemini" /\ KeyMissing)
          => /\ cpc' = "thrown"
             /\ result' = Thrown("notConfigured")
             /\ requests' = 0
             /\ attempts' = 0
             /\ nWaits' = 0
             /\ slept' = 0]_vars
  /\ []((loads = 1 /\ KeyMissing /\ branch = "gemini")
          => /\ requests = 0
             /\ cpc \notin {"fetch", "sleep"}
             /\ (pc \in {"ready", "drafting"}
                   => (fields = UnknownFields /\ metaShown /\ callsGemini >= 3)))

C36_Witness ==
  /\ configMap = [k \in {"customendpoint_url"} |-> EmptyString]
  /\ branch = "gemini"
  /\ pc = "ready"
  /\ clicks = 0
  /\ callsGemini = 3
  /\ requests = 0
  /\ fields = UnknownFields
  /\ metaShown

\* the step in which a call starts a backoff wait
WaitStarts == cpc = "fetch" /\ cpc' = "sleep"

\* C37: each backoff wait of a call is strictly longer than the wait before it
\* in the same call (and so than every earlier one), whatever the two jitters
\* are and whatever failures other than 429 came between; the first wait of a
\* call is at least 1000 ms.
C37_WaitsStrictlyIncreasing ==
  /\ [](nWaits = 0 => lastDelay = 0)
  /\ [][WaitStarts
          => /\ lastDelay' > lastDelay
             /\ lastDelay' >= 1000
             /\ nWaits' = nWaits + 1]_vars

C37_Witness ==
  /\ cpc = "sleep"
  /\ n429 = 2
  /\ nFailed = 1
  /\ nWaits = 2
  /\ slept = 1999
  /\ lastDelay = 4000

=============================================================================
